---- MODULE Spec2Model ----
(***************************************************************************)
(* Wikilink overlay on a Markdown event stream (src/src/lib.rs).           *)
(*                                                                         *)
(*   base parser -> TextJoiner -> ParserOffsetIter -> WikiParser           *)
(*                                                                         *)
(* A source is a sequence of one-byte characters; byte offsets are 0-based *)
(* and ranges are half open, as core::ops::Range<usize>.                   *)
(***************************************************************************)
EXTENDS Integers, Sequences, FiniteSets, TLC

\* ------------------------------------------------------------------ bounds

\* longest source of a document made of a single text event
MaxLen == 6
\* most items (events or uncovered gaps) of a document of several events
MaxEvents == 3

\* ------------------------------------------------------------ source text

Chars == {"[", "]", "|", "\n", "a"}

\* &source[s..e]
Slice(src, s, e) == SubSeq(src, s + 1, e)

Strings(n) == UNION {[1..k -> Chars] : k \in 0..n}

\* ------------------------------------------------------------------ events

NoLink == [link_type |-> "", dest_url |-> <<>>, title |-> "", id |-> ""]

\* (Event::Text(source[s..e].into()), s..e)
TextEvent(src, s, e) ==
    [kind |-> "Text", text |-> Slice(src, s, e), link |-> NoLink,
     start |-> s, end |-> e]

\* Event::Start(Tag::Link{..}) built from url_pos, carried with range s..e
StartLinkEvent(src, url_s, url_e, s, e) ==
    [kind |-> "StartLink", text |-> <<>>,
     link |-> [link_type |-> "Inline", dest_url |-> Slice(src, url_s, url_e),
               title |-> "wiki", id |-> ""],
     start |-> s, end |-> e]

\* Event::End(TagEnd::Link)
EndLinkEvent(s, e) ==
    [kind |-> "EndLink", text |-> <<>>, link |-> NoLink, start |-> s, end |-> e]

\* any event of the base parser that is not a Text
BaseEvent(k, s, e) ==
    [kind |-> k, text |-> <<>>, link |-> NoLink, start |-> s, end |-> e]

\* Option::None of an iterator
NoEvent == [kind |-> "None", text |-> <<>>, link |-> NoLink, start |-> 0, end |-> 0]

\* -------------------------------------------------------------------- lexer

Token(t, s, e) == [tok |-> t, start |-> s, end |-> e]

\* does a two-character delimiter or a one-character token start at index i (1-based)?
IsDelimAt(s, i) ==
    \/ s[i] \in {"|", "\n"}
    \/ i < Len(s) /\ s[i] = "[" /\ s[i + 1] = "["
    \/ i < Len(s) /\ s[i] = "]" /\ s[i + 1] = "]"

\* index just after the maximal run of ordinary characters starting at i
RECURSIVE OtherRunEnd(_, _)
OtherRunEnd(s, i) ==
    IF i > Len(s) \/ IsDelimAt(s, i) THEN i ELSE OtherRunEnd(s, i + 1)

\* single forward scan of the slice s from index i; ranges in document coordinates
RECURSIVE LexFrom(_, _, _)
LexFrom(s, i, base) ==
    IF i > Len(s) THEN <<>>
    ELSE IF i < Len(s) /\ s[i] = "[" /\ s[i + 1] = "["
    THEN <<Token("LLBra", base + i - 1, base + i + 1)>> \o LexFrom(s, i + 2, base)
    ELSE IF i < Len(s) /\ s[i] = "]" /\ s[i + 1] = "]"
    THEN <<Token("RRBra", base + i - 1, base + i + 1)>> \o LexFrom(s, i + 2, base)
    ELSE IF s[i] = "|"
    THEN <<Token("Pipe", base + i - 1, base + i)>> \o LexFrom(s, i + 1, base)
    ELSE IF s[i] = "\n"
    THEN <<Token("NewLine", base + i - 1, base + i)>> \o LexFrom(s, i + 1, base)
    ELSE LET j == OtherRunEnd(s, i + 1)
         IN  <<Token("Other", base + i - 1, base + j - 1)>> \o LexFrom(s, j, base)

\* Lexer::new_at(slice, offset)
LexerNewAt(s, base) == LexFrom(s, 1, base)

\* --------------------------------------------------------------- ParseError

ErrEmpty == [kind |-> "Empty", start |-> 0, end |-> 0]
ErrReParse(s, e) == [kind |-> "ReParse", start |-> s, end |-> e]

\* mutant of extend_before: Empty stays Empty
extend_before_KeepsEmpty(err, r_start, r_end) ==
    IF err.kind = "Empty"
    THEN ErrEmpty
    ELSE ErrReParse(r_start, err.end)

\* ParseError::extend_before(self, r)
extend_before(err, r_start, r_end) ==
    IF err.kind = "Empty"
    THEN ErrReParse(r_start, r_end)
    ELSE ErrReParse(r_start, err.end)

\* --------------------------------------------------------------- WikiParser

FieldOk(s, e, lexer) ==
    [tag |-> "Ok", err |-> ErrEmpty, start |-> s, end |-> e, lexer |-> lexer]
FieldErr(err, lexer) ==
    [tag |-> "Err", err |-> err, start |-> 0, end |-> 0, lexer |-> lexer]

\* the loop of parse_wikilink_first_field
RECURSIVE FirstFieldLoop(_, _, _)
FirstFieldLoop(lexer, start, end) ==
    IF lexer = <<>> THEN FieldErr(ErrReParse(start, end), lexer)
    ELSE IF Head(lexer).tok \in {"Pipe", "RRBra"} THEN FieldOk(start, end, lexer)
    ELSE FirstFieldLoop(Tail(lexer), start, Head(lexer).end)

\* in `[[url|link]]`, the range of `url`; the `|` or `]]` is not consumed
parse_wikilink_first_field(lexer) ==
    IF lexer = <<>> THEN FieldErr(ErrEmpty, lexer)
    ELSE FirstFieldLoop(lexer, Head(lexer).start, Head(lexer).start)

\* the loop of parse_wikilink_alias
RECURSIVE AliasLoop(_, _, _)
AliasLoop(lexer, start, end) ==
    IF lexer = <<>> THEN FieldErr(ErrReParse(start, end), lexer)
    ELSE IF Head(lexer).tok = "RRBra" THEN FieldOk(start, end, lexer)
    ELSE AliasLoop(Tail(lexer), start, Head(lexer).end)

\* mutant of parse_wikilink_alias: a `|` ends the alias as it ends the first field
parse_wikilink_alias_StopsAtPipe(lexer) == parse_wikilink_first_field(lexer)

\* in `link]]`, the range of `link`; the `]]` is not consumed
parse_wikilink_alias(lexer) ==
    IF lexer = <<>> THEN FieldErr(ErrEmpty, lexer)
    ELSE AliasLoop(lexer, Head(lexer).start, Head(lexer).start)

LinkOk(events, lexer) ==
    [tag |-> "Ok", events |-> events, err |-> ErrEmpty, lexer |-> lexer]
LinkErr(err, lexer) ==
    [tag |-> "Err", events |-> <<>>, err |-> err, lexer |-> lexer]
\* an unreachable!() branch or a failed unwrap() was hit
LinkPanic(lexer) ==
    [tag |-> "Panic", events |-> <<>>, err |-> ErrEmpty, lexer |-> lexer]

\* mutant of LinkTriple: the Text event carries the outer range of the link
LinkTriple_TextOuterRange(src, url_s, url_e, text_s, text_e, s, e) ==
    << StartLinkEvent(src, url_s, url_e, s, e),
       TextEvent(src, s, e),
       EndLinkEvent(s, e) >>

\* mutant of LinkTriple: the End(Link) carries the range of the displayed field
LinkTriple_EndInnerRange(src, url_s, url_e, text_s, text_e, s, e) ==
    << StartLinkEvent(src, url_s, url_e, s, e),
       TextEvent(src, text_s, text_e),
       EndLinkEvent(text_s, text_e) >>

\* mutant of LinkTriple: the displayed field is left out of the link
LinkTriple_NoText(src, url_s, url_e, text_s, text_e, s, e) ==
    << StartLinkEvent(src, url_s, url_e, s, e),
       EndLinkEvent(s, e) >>

\* the three events of a link whose displayed field is text_s..text_e
LinkTriple(src, url_s, url_e, text_s, text_e, s, e) ==
    << StartLinkEvent(src, url_s, url_e, s, e),
       TextEvent(src, text_s, text_e),
       EndLinkEvent(s, e) >>

\* parse_wikilink: the lexer's next token is the `[[`
parse_wikilink(src, lexer) ==
    IF lexer = <<>> THEN LinkPanic(lexer)
    ELSE
    LET tag_pos == Head(lexer)
        url     == parse_wikilink_first_field(Tail(lexer))
    IN  IF url.tag = "Err"
        THEN LinkErr(extend_before(url.err, tag_pos.start, tag_pos.end), url.lexer)
        ELSE IF url.lexer = <<>> THEN LinkPanic(url.lexer)
        ELSE
        LET x == Head(url.lexer)
        IN  IF x.tok = "RRBra"
            THEN LinkOk(LinkTriple(src, url.start, url.end, url.start, url.end,
                                   tag_pos.start, x.end),
                        Tail(url.lexer))
            ELSE IF x.tok = "Pipe"
            THEN LET alias == parse_wikilink_alias(Tail(url.lexer))
                 IN  IF alias.tag = "Err"
                     THEN LinkErr(extend_before(alias.err, tag_pos.start, tag_pos.end),
                                  alias.lexer)
                     ELSE IF alias.lexer = <<>> THEN LinkPanic(alias.lexer)
                     ELSE LinkOk(LinkTriple(src, url.start, url.end,
                                            alias.start, alias.end,
                                            tag_pos.start, Head(alias.lexer).end),
                                 Tail(alias.lexer))
            ELSE LinkPanic(url.lexer)

\* the loop of parse_text: up to the first `[[`, which is not consumed
RECURSIVE TextLoop(_, _, _)
TextLoop(lexer, start, end) ==
    IF lexer = <<>> \/ Head(lexer).tok = "LLBra"
    THEN [start |-> start, end |-> end, lexer |-> lexer]
    ELSE TextLoop(Tail(lexer), start, Head(lexer).end)

\* parse_text: the lexer is not exhausted
parse_text(lexer) == TextLoop(lexer, Head(lexer).start, Head(lexer).start)

\* `while let Some((Token::NewLine, _)) = self.lexer.peek() { self.lexer.next(); }`
RECURSIVE SkipNewLines(_)
SkipNewLines(lexer) ==
    IF lexer # <<>> /\ Head(lexer).tok = "NewLine"
    THEN SkipNewLines(Tail(lexer))
    ELSE lexer

\* WikiParser::new(source, range)
WikiParserNew(src, s, e) ==
    [lexer |-> LexerNewAt(Slice(src, s, e), s), buffer |-> <<>>]

WikiStep(branch, item, before, lexer, buffer) ==
    [branch |-> branch, item |-> item, before |-> before,
     lexer |-> lexer, buffer |-> buffer]

\* <WikiParser as Iterator>::next on the parser state p
WikiNext(src, p) ==
    IF p.buffer # <<>>
    THEN WikiStep("buffer", Head(p.buffer), p.lexer, p.lexer, Tail(p.buffer))
    ELSE
    LET lexer == SkipNewLines(p.lexer)
    IN  IF lexer = <<>>
        THEN WikiStep("none", NoEvent, p.lexer, lexer, <<>>)
        ELSE IF Head(lexer).tok = "LLBra"
        THEN LET b == parse_wikilink(src, lexer)
             IN  IF b.tag = "Ok"
                 THEN WikiStep("link", Head(b.events), p.lexer, b.lexer, Tail(b.events))
                 ELSE IF b.tag = "Err" /\ b.err.kind = "ReParse"
                 THEN WikiStep("reparse", TextEvent(src, b.err.start, b.err.end),
                               p.lexer, b.lexer, <<>>)
                 ELSE WikiStep("panic", NoEvent, p.lexer, b.lexer, <<>>)
        ELSE LET r == parse_text(lexer)
             IN  WikiStep("text", TextEvent(src, r.start, r.end),
                          p.lexer, r.lexer, <<>>)

\* .collect::<Vec<_>>(): the steps of the parser up to its first None
RECURSIVE CollectFrom(_, _)
CollectFrom(src, p) ==
    LET r == WikiNext(src, p)
    IN  IF r.branch \in {"none", "panic"}
        THEN <<r>>
        ELSE <<r>> \o CollectFrom(src, [lexer |-> r.lexer, buffer |-> r.buffer])

WikiCollect(src, s, e) == CollectFrom(src, WikiParserNew(src, s, e))

\* --------------------------------------------------------------- TextJoiner

\* mutant of TextRun: the run ends with its first Text event
TextRun_First(events, end) == [end |-> end, parser |-> Tail(events)]

\* `while let Some((Event::Text(_), _)) = self.parser.peek()`: the run of Text
\* events at the head of the base stream, and the end of the last one
RECURSIVE TextRun(_, _)
TextRun(events, end) ==
    IF events # <<>> /\ Head(events).kind = "Text"
    THEN TextRun(Tail(events), Head(events).end)
    ELSE [end |-> end, parser |-> events]

\* mutant of TextJoinerNext: a Text with an empty payload is not skipped
TextJoinerNext_KeepsEmpty(src, events) ==
    IF events = <<>> THEN [item |-> NoEvent, parser |-> events]
    ELSE IF Head(events).kind = "Text"
    THEN LET run == TextRun(events, Head(events).end)
         IN  [item |-> TextEvent(src, Head(events).start, run.end),
              parser |-> run.parser]
    ELSE [item |-> Head(events), parser |-> Tail(events)]

\* <TextJoiner as Iterator>::next on the rest of the base stream
RECURSIVE TextJoinerNext(_, _)
TextJoinerNext(src, events) ==
    IF events = <<>> THEN [item |-> NoEvent, parser |-> events]
    ELSE IF Head(events).kind = "Text" /\ Head(events).text = <<>>
    THEN TextJoinerNext(src, Tail(events))
    ELSE IF Head(events).kind = "Text"
    THEN LET run == TextRun(events, Head(events).end)
         IN  [item |-> TextEvent(src, Head(events).start, run.end),
              parser |-> run.parser]
    ELSE [item |-> Head(events), parser |-> Tail(events)]

\* ------------------------------------------------ documents (base parser)

\* The base Markdown parser is an external collaborator: a document is a
\* sequence of items, each a Text event over the next chunk of the source, a
\* block event, or a gap (source bytes that no Text event covers).
BlockKinds ==
    {"StartMetadataBlock", "EndMetadataBlock", "StartCodeBlock", "EndCodeBlock", "Other"}

ShortChunks ==
    { <<>>, <<"a">>, <<"\n">>, <<"[", "[">>, <<"[", "[", "a", "]", "]">> }

Items ==
    [kind : BlockKinds, chunk : {<<>>}]
    \cup [kind : {"Text"}, chunk : ShortChunks]
    \cup [kind : {"Gap"}, chunk : {<<"a">>}]

\* documents of one Text event over any source of at most MaxLen bytes
SpanDocs == {<<[kind |-> "Text", chunk |-> s]>> : s \in Strings(MaxLen)}

\* documents of at most MaxEvents items over short chunks
EventDocs == UNION {[1..n -> Items] : n \in 0..MaxEvents}

RECURSIVE DocSource(_)
DocSource(doc) ==
    IF doc = <<>> THEN <<>> ELSE Head(doc).chunk \o DocSource(Tail(doc))

\* the (Event, Range) pairs of into_offset_iter() for the document
RECURSIVE DocEvents(_, _, _)
DocEvents(src, doc, pos) ==
    IF doc = <<>> THEN <<>>
    ELSE LET it   == Head(doc)
             next == pos + Len(it.chunk)
             rest == DocEvents(src, Tail(doc), next)
         IN  IF it.kind = "Gap" THEN rest
             ELSE IF it.kind = "Text" THEN <<TextEvent(src, pos, next)>> \o rest
             ELSE <<BaseEvent(it.kind, pos, Len(src))>> \o rest

\* --------------------------------------------------------- ParserOffsetIter

VARIABLES
    source,            \* ParserOffsetIter.source
    wikilinks,         \* ParserOffsetIter.wikilinks
    base,              \* the whole stream of the base parser over source
    parser,            \* TextJoiner.parser: what is left of the base stream
    buffer,            \* ParserOffsetIter.buffer
    inside_metadata,   \* ParserOffsetIter.inside_metadata
    inside_codeblock,  \* ParserOffsetIter.inside_codeblock
    status,            \* "running", "done" (next() returned None), "panicked"
    out,               \* every (Event, Range) next() has returned, in order
    origin,            \* for each element of out: the index in joined it comes from
    joined,            \* every item the TextJoiner has delivered, in order, each
                       \* with the overlay's flags when next() pulled it
    steps              \* the WikiParser steps over the last Plain text span

vars == << source, wikilinks, base, parser, buffer, inside_metadata, inside_codeblock,
           status, out, origin, joined, steps >>

\* ParserOffsetIter::new_ext(source, options, wikilinks)
Init ==
    \E w \in BOOLEAN :
      \E doc \in (IF w THEN SpanDocs \cup EventDocs ELSE EventDocs) :
        /\ source = DocSource(doc)
        /\ wikilinks = w
        /\ base = DocEvents(DocSource(doc), doc, 0)
        /\ parser = DocEvents(DocSource(doc), doc, 0)
        /\ buffer = <<>>
        /\ inside_metadata = FALSE
        /\ inside_codeblock = FALSE
        /\ status = "running"
        /\ out = <<>>
        /\ origin = <<>>
        /\ joined = <<>>
        /\ steps = <<>>

\* self.events.next()
Pull == TextJoinerNext(source, parser)

\* the pulled event, with the overlay's flags when next() was entered
Pulled ==
    [item |-> Pull.item, inside_metadata |-> inside_metadata,
     inside_codeblock |-> inside_codeblock]

\* next() returns Some(ev)
Return(ev, from) ==
    /\ out' = Append(out, ev)
    /\ origin' = Append(origin, from)

\* next() returns the pulled event as it is
PassThrough ==
    /\ parser' = Pull.parser
    /\ joined' = Append(joined, Pulled)
    /\ Return(Pull.item, Len(joined) + 1)

\* mutant of Opaque: only a metadata block suppresses the scan
Opaque_MetadataOnly == inside_metadata

\* `self.inside_metadata || self.inside_codeblock`
Opaque == inside_metadata \/ inside_codeblock

\* `if !self.wikilinks { return Some(self.events.next()?) }`
NextDisabled ==
    /\ status = "running"
    /\ ~wikilinks
    /\ Pull.item.kind # "None"
    /\ PassThrough
    /\ UNCHANGED << source, wikilinks, base, buffer, inside_metadata, inside_codeblock,
                    status, steps >>

\* `if let Some(x) = self.buffer.next() { return Some(x) }`
NextBuffered ==
    /\ status = "running"
    /\ wikilinks
    /\ buffer # <<>>
    /\ buffer' = Tail(buffer)
    /\ Return(Head(buffer), Len(joined))
    /\ UNCHANGED << source, wikilinks, base, parser, inside_metadata, inside_codeblock,
                    status, joined, steps >>

\* mutant of Pulls: the coalescer is pulled whatever the buffer holds
Pulls_IgnoresBuffer ==
    /\ status = "running"
    /\ wikilinks
    /\ Pull.item.kind # "None"

\* the overlay is enabled, its buffer is empty and the coalescer has an event
Pulls ==
    /\ status = "running"
    /\ wikilinks
    /\ buffer = <<>>
    /\ Pull.item.kind # "None"

\* `(Event::End(TagEnd::MetadataBlock(k)), r) if self.inside_metadata`
NextEndMetadata ==
    /\ Pulls
    /\ Pull.item.kind = "EndMetadataBlock" /\ inside_metadata
    /\ inside_metadata' = FALSE
    /\ PassThrough
    /\ UNCHANGED << source, wikilinks, base, buffer, inside_codeblock, status, steps >>

\* `(Event::End(TagEnd::CodeBlock), r) if self.inside_codeblock`
NextEndCodeBlock ==
    /\ Pulls
    /\ ~(Pull.item.kind = "EndMetadataBlock" /\ inside_metadata)
    /\ Pull.item.kind = "EndCodeBlock" /\ inside_codeblock
    /\ inside_codeblock' = FALSE
    /\ PassThrough
    /\ UNCHANGED << source, wikilinks, base, buffer, inside_metadata, status, steps >>

\* `(Event::Text(x), r) if self.inside_metadata || self.inside_codeblock`
NextOpaqueText ==
    /\ Pulls
    /\ Pull.item.kind = "Text" /\ Opaque
    /\ PassThrough
    /\ UNCHANGED << source, wikilinks, base, buffer, inside_metadata, inside_codeblock,
                    status, steps >>

\* `(Event::Start(Tag::MetadataBlock(k)), r)`
NextStartMetadata ==
    /\ Pulls
    /\ Pull.item.kind = "StartMetadataBlock"
    /\ inside_metadata' = TRUE
    /\ PassThrough
    /\ UNCHANGED << source, wikilinks, base, buffer, inside_codeblock, status, steps >>

\* `(Event::Start(Tag::CodeBlock(k)), r)`
NextStartCodeBlock ==
    /\ Pulls
    /\ Pull.item.kind = "StartCodeBlock"
    /\ inside_codeblock' = TRUE
    /\ PassThrough
    /\ UNCHANGED << source, wikilinks, base, buffer, inside_metadata, status, steps >>

\* the items of the steps of a collected WikiParser run
StepEvents(run) ==
    [i \in 1..(Len(run) - 1) |-> run[i].item]

\* `(Event::Text(_), range)`: the span goes through a fresh WikiParser, whose
\* collected output becomes the buffer; the first element is returned
NextPlainText ==
    /\ Pulls
    /\ Pull.item.kind = "Text" /\ ~Opaque
    /\ LET run == WikiCollect(source, Pull.item.start, Pull.item.end)
           evs == StepEvents(run)
       IN  /\ steps' = run
           /\ parser' = Pull.parser
           /\ joined' = Append(joined, Pulled)
           /\ IF run[Len(run)].branch = "panic" \/ evs = <<>>
              THEN \* unreachable!() in the parser, or
                   \* .expect("an empty text should not be possible here")
                   /\ status' = "panicked"
                   /\ UNCHANGED << buffer, out, origin >>
              ELSE /\ buffer' = Tail(evs)
                   /\ Return(Head(evs), Len(joined) + 1)
                   /\ UNCHANGED status
    /\ UNCHANGED << source, wikilinks, base, inside_metadata, inside_codeblock >>

\* `(other, r) => return Some((other, r))`
NextOther ==
    /\ Pulls
    /\ \/ Pull.item.kind = "Other"
       \/ Pull.item.kind = "EndMetadataBlock" /\ ~inside_metadata
       \/ Pull.item.kind = "EndCodeBlock" /\ ~inside_codeblock
                                          /\ ~(Pull.item.kind = "EndMetadataBlock")
    /\ PassThrough
    /\ UNCHANGED << source, wikilinks, base, buffer, inside_metadata, inside_codeblock,
                    status, steps >>

\* `self.events.next()?`: the coalescer is exhausted, next() returns None
NextNone ==
    /\ status \in {"running", "done"}
    /\ wikilinks => buffer = <<>>
    /\ Pull.item.kind = "None"
    /\ status' = "done"
    /\ parser' = Pull.parser
    /\ UNCHANGED << source, wikilinks, base, buffer, inside_metadata, inside_codeblock,
                    out, origin, joined, steps >>

Next ==
    \/ NextDisabled
    \/ NextBuffered
    \/ NextEndMetadata
    \/ NextEndCodeBlock
    \/ NextOpaqueText
    \/ NextStartMetadata
    \/ NextStartCodeBlock
    \/ NextPlainText
    \/ NextOther
    \/ NextNone

Spec == Init /\ [][Next]_vars

\* ------------------------------------------------------------- properties

\* the output events that come from the j-th coalesced event, in order
OutOf(j) ==
    LET idx == {i \in 1..Len(out) : origin[i] = j}
    IN  IF idx = {} THEN <<>>
        ELSE SubSeq(out, CHOOSE a \in idx : \A b \in idx : a <= b,
                         CHOOSE a \in idx : \A b \in idx : b <= a)

\* everything the j-th coalesced event gives rise to has been returned
Drained(j) == j < Len(joined) \/ (buffer = <<>> /\ status # "panicked")

\* the j-th coalesced event is a Text pulled by the enabled overlay in the Plain state
PlainText(j) ==
    /\ wikilinks
    /\ joined[j].item.kind = "Text"
    /\ ~joined[j].inside_metadata
    /\ ~joined[j].inside_codeblock

\* s[i], s[i+1] are the characters c, c
PairAt(s, i, c) == i >= 1 /\ i < Len(s) /\ s[i] = c /\ s[i + 1] = c

\* s is `[[target]]` with no `|` and no `]]` in target
IsBareLink(s) ==
    /\ Len(s) >= 4
    /\ PairAt(s, 1, "[")
    /\ PairAt(s, Len(s) - 1, "]")
    /\ \A i \in 3..(Len(s) - 2) : s[i] # "|"
    /\ \A i \in 3..(Len(s) - 3) : ~PairAt(s, i, "]")

ExpectStart(dest, s, e) ==
    [kind |-> "StartLink", text |-> <<>>,
     link |-> [link_type |-> "Inline", dest_url |-> dest, title |-> "wiki", id |-> ""],
     start |-> s, end |-> e]
ExpectText(txt, s, e) ==
    [kind |-> "Text", text |-> txt,
     link |-> [link_type |-> "", dest_url |-> <<>>, title |-> "", id |-> ""],
     start |-> s, end |-> e]
ExpectEnd(s, e) ==
    [kind |-> "EndLink", text |-> <<>>,
     link |-> [link_type |-> "", dest_url |-> <<>>, title |-> "", id |-> ""],
     start |-> s, end |-> e]

\* the three events the claim C1 describes for the span of the event ev
BareLinkTriple(ev) ==
    LET target == SubSeq(ev.text, 3, Len(ev.text) - 2)
    IN  << ExpectStart(target, ev.start, ev.end),
           ExpectText(target, ev.start + 2, ev.end - 2),
           ExpectEnd(ev.start, ev.end) >>

\* C1 as stated: a Plain text span that is exactly `[[target]]`, target without
\* `|` and without `]]`, yields exactly Start(Link{Inline, target, "wiki", ""}) over
\* the whole span, Text(target) over the target, End(Link) over the whole span.
C1_AsStated ==
    \A j \in 1..Len(joined) :
        (PlainText(j) /\ IsBareLink(joined[j].item.text) /\ Drained(j))
            => OutOf(j) = BareLinkTriple(joined[j].item)

\* C1 (amended): the same, for a target that moreover does not end with `]`
\* (a `]` before the closing `]]` closes the link one byte early).
C1_BareLink ==
    \A j \in 1..Len(joined) :
        LET s == joined[j].item.text
        IN  (/\ PlainText(j)
             /\ IsBareLink(s)
             /\ s[Len(s) - 2] # "]"
             /\ Drained(j))
                => OutOf(j) = BareLinkTriple(joined[j].item)

\* a `[[a...]]` span that does not start the source has been fully returned
C1_Witness ==
    \E j \in 1..Len(joined) :
        LET s == joined[j].item.text
        IN  /\ PlainText(j)
            /\ IsBareLink(s)
            /\ Len(s) > 4
            /\ s[Len(s) - 2] # "]"
            /\ joined[j].item.start > 0
            /\ Drained(j)
            /\ Len(OutOf(j)) = 3

\* the index of the first `|` of s at or after index 3, 0 when there is none
FirstPipe(s) ==
    LET ps == {i \in 3..Len(s) : s[i] = "|"}
    IN  IF ps = {} THEN 0 ELSE CHOOSE i \in ps : \A k \in ps : i <= k

\* s is `[[target|alias]]`: target is what stands between `[[` and the first `|`
\* and holds no `]]`, and the first `]]` after that `|` is the end of s
IsAliasLink(s) ==
    /\ Len(s) >= 5
    /\ PairAt(s, 1, "[")
    /\ FirstPipe(s) # 0
    /\ FirstPipe(s) <= Len(s) - 2
    /\ \A i \in 3..(FirstPipe(s) - 2) : ~PairAt(s, i, "]")
    /\ PairAt(s, Len(s) - 1, "]")
    /\ \A i \in (FirstPipe(s) + 1)..(Len(s) - 2) : ~PairAt(s, i, "]")

\* the three events the claim C2 describes for the span of the event ev
AliasLinkTriple(ev) ==
    LET p      == FirstPipe(ev.text)
        target == SubSeq(ev.text, 3, p - 1)
        alias  == SubSeq(ev.text, p + 1, Len(ev.text) - 2)
    IN  << ExpectStart(target, ev.start, ev.end),
           ExpectText(alias, ev.start + p, ev.end - 2),
           ExpectEnd(ev.start, ev.end) >>

\* C2: a Plain text span `[[target|alias]]` yields Start(Link{target, "wiki"}),
\* Text(alias), End(Link), where target ends at the first `|` and alias is all
\* that stands between that `|` and the first following `]]`, further `|` included.
C2_AliasLink ==
    \A j \in 1..Len(joined) :
        (PlainText(j) /\ IsAliasLink(joined[j].item.text) /\ Drained(j))
            => OutOf(j) = AliasLinkTriple(joined[j].item)

\* a `[[target|alias]]` span whose alias holds a `|` has been fully returned
C2_Witness ==
    \E j \in 1..Len(joined) :
        LET s == joined[j].item.text
        IN  /\ PlainText(j)
            /\ IsAliasLink(s)
            /\ \E i \in (FirstPipe(s) + 1)..(Len(s) - 2) : s[i] = "|"
            /\ Drained(j)
            /\ Len(OutOf(j)) = 3

\* the j-th coalesced event stands after a Start of the block kind and before
\* the next End of that kind
InRegion(j, startKind, endKind) ==
    LET ms == {k \in 1..(j - 1) : joined[k].item.kind \in {startKind, endKind}}
    IN  /\ ms # {}
        /\ joined[CHOOSE k \in ms : \A m \in ms : m <= k].item.kind = startKind

InMetadataRegion(j) == InRegion(j, "StartMetadataBlock", "EndMetadataBlock")
InCodeRegion(j) == InRegion(j, "StartCodeBlock", "EndCodeBlock")

\* C3: with the overlay enabled, nothing that comes from an event between a
\* Start(MetadataBlock) or Start(CodeBlock) and the End of that block is a
\* synthesized Start(Link) or End(Link), and a Text delivered there is returned
\* as it is: one event, same payload, same range.
C3_OpaqueRegions ==
    wikilinks =>
        \A j \in 1..Len(joined) :
            (InMetadataRegion(j) \/ InCodeRegion(j)) =>
                /\ \A i \in 1..Len(out) :
                       origin[i] = j => out[i].kind \notin {"StartLink", "EndLink"}
                /\ joined[j].item.kind = "Text" => OutOf(j) = <<joined[j].item>>

\* a Text that reads `[[a]]` was delivered inside a code block, outside any
\* metadata block, and returned
C3_Witness ==
    /\ wikilinks
    /\ \E j \in 1..Len(joined) :
           /\ InCodeRegion(j) /\ ~InMetadataRegion(j)
           /\ joined[j].item.kind = "Text"
           /\ IsBareLink(joined[j].item.text)
           /\ OutOf(j) = <<joined[j].item>>

\* the overlay's flags once the j-th coalesced event has been handled
FlagsAfter(j) ==
    IF j < Len(joined)
    THEN << joined[j + 1].inside_metadata, joined[j + 1].inside_codeblock >>
    ELSE << inside_metadata, inside_codeblock >>

\* the j-th coalesced event is the End that closes an opened region
ClosesRegion(j) ==
    \/ joined[j].item.kind = "EndMetadataBlock" /\ joined[j].inside_metadata
    \/ joined[j].item.kind = "EndCodeBlock" /\ joined[j].inside_codeblock

\* C4 as stated: once the End(MetadataBlock) (resp. End(CodeBlock)) that closes an
\* opened region is returned the overlay is Plain, both flags false, so that a
\* `[[link]]` Text coming next yields a link; and the flag of a region stays set
\* up to that End.
C4_AsStated ==
    wikilinks =>
        \A j \in 1..Len(joined) :
            /\ ClosesRegion(j) => FlagsAfter(j) = << FALSE, FALSE >>
            /\ (/\ ClosesRegion(j)
                /\ j < Len(joined)
                /\ joined[j + 1].item.kind = "Text"
                /\ IsBareLink(joined[j + 1].item.text)
                /\ Drained(j + 1))
                    => /\ Len(OutOf(j + 1)) >= 3
                       /\ OutOf(j + 1)[1].kind = "StartLink"
            /\ InMetadataRegion(j) => joined[j].inside_metadata
            /\ InCodeRegion(j) => joined[j].inside_codeblock

\* the coalesced stream: the TextJoiner pulled until it is exhausted
RECURSIVE JoinAll(_, _)
JoinAll(src, events) ==
    LET r == TextJoinerNext(src, events)
    IN  IF r.item.kind = "None" THEN <<>>
        ELSE <<r.item>> \o JoinAll(src, r.parser)

\* C5: with wikilinks false the output is the coalesced base stream, event for
\* event and range for range (all of it once next() has returned None), no link
\* is synthesized, the buffer and the two flags are never touched, and no Text
\* of the output has an empty payload.
C5_Disabled ==
    ~wikilinks =>
        /\ Len(out) <= Len(JoinAll(source, base))
        /\ out = SubSeq(JoinAll(source, base), 1, Len(out))
        /\ status = "done" => out = JoinAll(source, base)
        /\ buffer = <<>>
        /\ ~inside_metadata /\ ~inside_codeblock
        /\ \A i \in 1..Len(out) :
               /\ out[i].kind \notin {"StartLink", "EndLink"}
               /\ out[i].kind = "Text" => out[i].text # <<>>

\* with wikilinks false a stream with a block start and a `[[a]]` Text next to a
\* Text of empty payload has been returned whole
C5_Witness ==
    /\ ~wikilinks
    /\ status = "done"
    /\ \E i \in 1..Len(base) : base[i].kind = "Text" /\ base[i].text = <<>>
    /\ \E i \in 1..Len(out) : out[i].kind = "Text" /\ IsBareLink(out[i].text)
    /\ \E i \in 1..Len(out) : out[i].kind \in {"StartMetadataBlock", "StartCodeBlock"}

\* C6 as stated: with the overlay enabled no Text of the output is empty, neither
\* its payload nor its range, the Text between Start(Link) and End(Link) included.
C6_AsStated ==
    wikilinks =>
        \A i \in 1..Len(out) :
            out[i].kind = "Text" => (out[i].text # <<>> /\ out[i].start < out[i].end)

\* the last token a WikiParser step took from the lexer
LastConsumed(step) == step.before[Len(step.before) - Len(step.lexer)]

\* C7 as stated: the Text returned for a failed wikilink attempt runs from the
\* opening `[[` to the end of the last token the attempt consumed.
C7_AsStated ==
    \A k \in 1..Len(steps) :
        steps[k].branch = "reparse" =>
            /\ steps[k].item.kind = "Text"
            /\ steps[k].item.start = Head(SkipNewLines(steps[k].before)).start
            /\ steps[k].item.end = LastConsumed(steps[k]).end
            /\ steps[k].item.text =
                   Slice(source, steps[k].item.start, LastConsumed(steps[k]).end)

\* the last Text the enabled overlay pulled in the Plain state; steps is its run
LastPlainText ==
    CHOOSE j \in 1..Len(joined) :
        PlainText(j) /\ \A k \in 1..Len(joined) : PlainText(k) => k <= j

RECURSIVE TopLevel(_)
\* the top-level outputs of a WikiParser run: each literal Text and each link,
\* a link counted once by its Start(Link), whose range is the outer one
TopLevel(run) ==
    IF run = <<>> THEN <<>>
    ELSE IF Head(run).branch \in {"text", "reparse", "link"}
    THEN <<Head(run).item>> \o TopLevel(Tail(run))
    ELSE TopLevel(Tail(run))

\* C8 as stated: the ranges of the top-level outputs of the parser over a span,
\* in order, are contiguous and cover the span exactly, line terminators included.
C8_AsStated ==
    (\E j \in 1..Len(joined) : PlainText(j)) =>
        LET span == joined[LastPlainText].item
            tops == TopLevel(steps)
        IN  /\ span.start < span.end => tops # <<>>
            /\ tops # <<>> =>
                   /\ tops[1].start = span.start
                   /\ tops[Len(tops)].end = span.end
                   /\ \A i \in 1..(Len(tops) - 1) : tops[i].end = tops[i + 1].start

\* C9 as stated: pulling the overlay never panics.
C9_AsStated == status # "panicked"

\* C10 as stated: the start positions of the ranges of the output never decrease
\* from one event to the next.
C10_AsStated ==
    \A i \in 1..(Len(out) - 1) : out[i].start <= out[i + 1].start

\* C10 (amended): among the events that come from one Plain text span the start
\* positions never decrease from one event to the next except at an End(Link),
\* which carries the range of its Start(Link), two events before it, and so
\* starts before the Text that stands between them.
C10_StartsWithinSpan ==
    \A i \in 1..(Len(out) - 1) :
        (origin[i] = origin[i + 1] /\ PlainText(origin[i])) =>
            IF out[i + 1].kind = "EndLink"
            THEN /\ i >= 2
                 /\ origin[i - 1] = origin[i]
                 /\ out[i - 1].kind = "StartLink"
                 /\ out[i].kind = "Text"
                 /\ out[i + 1].start = out[i - 1].start
                 /\ out[i + 1].end = out[i - 1].end
                 /\ out[i + 1].start < out[i].start
            ELSE out[i].start <= out[i + 1].start

\* a span gave a literal Text, then a link, then a literal Text again
C10_Witness ==
    \E i \in 1..(Len(out) - 4) :
        /\ PlainText(origin[i])
        /\ \A k \in 1..4 : origin[i + k] = origin[i]
        /\ out[i].kind = "Text"
        /\ out[i + 1].kind = "StartLink"
        /\ out[i + 3].kind = "EndLink"
        /\ out[i + 4].kind = "Text"
        /\ out[i].start < out[i + 1].start

\* s is a well-formed `[[target]]`: its closing `]]` is the first `]]` of the span
IsWellFormedBareLink(s) == IsBareLink(s) /\ s[Len(s) - 2] # "]"

\* C11 as stated: for a well-formed `[[target]]` the Start(Link), the Text and the
\* End(Link) all three carry the range of the whole `[[target]]`.
C11_AsStated ==
    \A j \in 1..Len(joined) :
        (PlainText(j) /\ IsWellFormedBareLink(joined[j].item.text) /\ Drained(j)) =>
            /\ Len(OutOf(j)) = 3
            /\ \A i \in 1..3 :
                   /\ OutOf(j)[i].start = joined[j].item.start
                   /\ OutOf(j)[i].end = joined[j].item.end

\* C11 (amended): for a well-formed `[[target]]` the Start(Link) and the End(Link)
\* carry the range of the whole `[[target]]`, and the Text carries the range of
\* target: the whole range less two bytes on each side.
C11_Ranges ==
    \A j \in 1..Len(joined) :
        (PlainText(j) /\ IsWellFormedBareLink(joined[j].item.text) /\ Drained(j)) =>
            /\ Len(OutOf(j)) = 3
            /\ \A i \in {1, 3} :
                   /\ OutOf(j)[i].start = joined[j].item.start
                   /\ OutOf(j)[i].end = joined[j].item.end
            /\ OutOf(j)[2].start = joined[j].item.start + 2
            /\ OutOf(j)[2].end = joined[j].item.end - 2

\* a well-formed `[[target]]` with a target of two bytes or more, after another
\* event of the stream, has been fully returned
C11_Witness ==
    \E j \in 2..Len(joined) :
        /\ PlainText(j)
        /\ IsWellFormedBareLink(joined[j].item.text)
        /\ Len(joined[j].item.text) >= 6
        /\ Drained(j)
        /\ Len(OutOf(j)) = 3

\* C12 as stated: inside_metadata and inside_codeblock are never both true, for
\* every upstream event sequence, and a Start of one block kind pulled while the
\* overlay is inside the other kind leaves the two flags as they were.
C12_AsStated ==
    wikilinks =>
        /\ ~(inside_metadata /\ inside_codeblock)
        /\ \A j \in 1..Len(joined) :
               /\ (joined[j].item.kind = "StartCodeBlock" /\ joined[j].inside_metadata) =>
                      FlagsAfter(j) = << TRUE, FALSE >>
               /\ (joined[j].item.kind = "StartMetadataBlock" /\ joined[j].inside_codeblock) =>
                      FlagsAfter(j) = << FALSE, TRUE >>

\* the events a WikiParser run returned before its None
ParserOutput == StepEvents(steps)

\* C13: in the wikilink parser's output for a span every Start(Link) is followed
\* at once by one Text and then one End(Link); the End(Link) has the range of its
\* Start(Link), the Text starts at least two bytes after the start of that range
\* and ends at least two bytes before its end, and every End(Link) closes a
\* Start(Link) two events before it.
C13_LinkTriples ==
    LET evs == ParserOutput
    IN  \A i \in 1..Len(evs) :
            /\ evs[i].kind = "StartLink" =>
                   /\ i + 2 <= Len(evs)
                   /\ evs[i + 1].kind = "Text"
                   /\ evs[i + 2].kind = "EndLink"
                   /\ evs[i + 2].start = evs[i].start
                   /\ evs[i + 2].end = evs[i].end
                   /\ evs[i + 1].start >= evs[i].start + 2
                   /\ evs[i + 1].end <= evs[i].end - 2
                   /\ evs[i + 1].start <= evs[i + 1].end
            /\ evs[i].kind = "EndLink" =>
                   /\ i >= 3
                   /\ evs[i - 2].kind = "StartLink"
                   /\ evs[i - 1].kind = "Text"
            /\ evs[i].kind \in {"StartLink", "Text", "EndLink"}

\* the parser returned a literal Text and then the three events of a link with
\* an alias, whose Text ends exactly two bytes before the end of the link
C13_Witness ==
    LET evs == ParserOutput
    IN  \E i \in 2..Len(evs) :
            /\ evs[i - 1].kind = "Text"
            /\ evs[i].kind = "StartLink"
            /\ i + 2 <= Len(evs)
            /\ evs[i + 2].kind = "EndLink"
            /\ evs[i + 1].start > evs[i].start + 2
            /\ evs[i + 1].end = evs[i].end - 2

\* the items the TextJoiner has delivered so far
JoinedItems == [j \in 1..Len(joined) |-> joined[j].item]

\* the length of the maximal run of Text events at the head of events
RECURSIVE RunLen(_)
RunLen(events) ==
    IF events = <<>> \/ Head(events).kind # "Text" THEN 0
    ELSE 1 + RunLen(Tail(events))

\* the stream in which each maximal run of consecutive Text events is replaced by
\* one Text from the start of its first non-empty event to the end of its last
\* event (by nothing if all its events are empty), the other events being kept
RECURSIVE Coalesced(_, _)
Coalesced(src, events) ==
    IF events = <<>> THEN <<>>
    ELSE IF Head(events).kind # "Text"
    THEN <<Head(events)>> \o Coalesced(src, Tail(events))
    ELSE LET n    == RunLen(events)
             rest == SubSeq(events, n + 1, Len(events))
             full == {k \in 1..n : events[k].start < events[k].end}
         IN  IF full = {} THEN Coalesced(src, rest)
             ELSE LET f == CHOOSE k \in full : \A m \in full : k <= m
                  IN  <<[kind |-> "Text", text |-> Slice(src, events[f].start, events[n].end),
                         link |-> NoLink,
                         start |-> events[f].start, end |-> events[n].end]>>
                      \o Coalesced(src, rest)

\* C14: what the TextJoiner delivers is the upstream stream with every maximal
\* run of consecutive Text events that begins with a non-empty Text replaced by
\* one Text, from the start of the first to the end of the last event of the run
\* and with the source slice of that range as payload; the other events are
\* delivered unchanged, one per pull and in upstream order (all of them once
\* next() has returned None); and no two consecutive delivered events are Text.
C14_Coalesces ==
    /\ Len(joined) <= Len(Coalesced(source, base))
    /\ JoinedItems = SubSeq(Coalesced(source, base), 1, Len(joined))
    /\ status = "done" => Len(joined) = Len(Coalesced(source, base))
    /\ \A j \in 1..(Len(joined) - 1) :
           ~(joined[j].item.kind = "Text" /\ joined[j + 1].item.kind = "Text")
    /\ \A j \in 1..Len(joined) :
           joined[j].item.kind = "Text" =>
               joined[j].item.text =
                   Slice(source, joined[j].item.start, joined[j].item.end)

\* a run of two non-empty Text events after another event has been delivered as
\* one Text, and the stream has been delivered to its end
C14_Witness ==
    /\ status = "done"
    /\ Len(base) = 3
    /\ base[1].kind # "Text"
    /\ base[2].kind = "Text" /\ base[2].start < base[2].end
    /\ base[3].kind = "Text" /\ base[3].start < base[3].end
    /\ Len(joined) = 2
    /\ joined[1].item = base[1]
    /\ joined[2].item.start = base[2].start
    /\ joined[2].item.end = base[3].end

\* e is not a zero-length Text event
NotEmptyText(e) == ~(e.kind = "Text" /\ e.start = e.end)

\* the upstream stream with all its zero-length Text events removed
WithoutEmptyTexts == SelectSeq(base, NotEmptyText)

\* C15 as stated: what the TextJoiner delivers from the upstream stream, events
\* and ranges, is what it delivers from the same stream with all zero-length Text
\* events removed, wherever the zero-length events stand.
C15_AsStated ==
    LET expected == JoinAll(source, WithoutEmptyTexts)
    IN  /\ Len(joined) <= Len(expected)
        /\ JoinedItems = SubSeq(expected, 1, Len(joined))
        /\ status = "done" => Len(joined) = Len(expected)

\* the overlay pulls the coalescer in this step
PullsCoalescer == joined' # joined

\* what has been returned is in the order of the coalesced events it derives from;
\* what the last Plain text span has given so far, followed by the buffer, is the
\* parser's output for it; a coalesced non-Text event has been returned once, as
\* it is; when next() has returned None the whole coalesced stream was pulled
InUpstreamOrder ==
    /\ \A i \in 1..Len(out) : \A k \in i..Len(out) : origin[i] <= origin[k]
    /\ \A i \in 1..Len(out) : origin[i] \in 1..Len(joined)
    /\ (/\ wikilinks /\ status # "panicked" /\ joined # <<>>
        /\ PlainText(Len(joined))) =>
           OutOf(Len(joined)) \o buffer = ParserOutput
    /\ \A j \in 1..Len(joined) :
           joined[j].item.kind # "Text" =>
               /\ OutOf(j) = <<joined[j].item>>
               /\ Cardinality({i \in 1..Len(out) : origin[i] = j}) = 1
    /\ status = "done" => JoinedItems = JoinAll(source, base)

\* C16: the overlay pulls the coalescer only when its buffer is empty and the
\* buffered events are returned in the order the wikilink parser produced them,
\* so everything derived from one upstream event is returned before anything
\* derived from the next, and each upstream non-Text event is returned exactly once.
C16_Order == [][PullsCoalescer => buffer = <<>>]_vars /\ []InUpstreamOrder

\* a Plain text span has been turned into several events, all returned, and the
\* non-Text event that follows it in the stream has been returned after them
C16_Witness ==
    \E j \in 2..Len(joined) :
        /\ PlainText(j - 1)
        /\ Len(OutOf(j - 1)) >= 3
        /\ joined[j].item.kind # "Text"
        /\ OutOf(j) = <<joined[j].item>>

\* each call of the wikilink parser's next() made with an empty buffer and a
\* lexer that is not exhausted consumed at least one token, and the run ended
\* with a None returned from an exhausted lexer and an empty buffer, after which
\* next() returns None again
ParserTerminates ==
    /\ \A k \in 1..Len(steps) :
           (steps[k].branch # "buffer" /\ steps[k].before # <<>>) =>
               Len(steps[k].lexer) < Len(steps[k].before)
    /\ steps # <<>> =>
           LET last == steps[Len(steps)]
               then == WikiNext(source, [lexer |-> last.lexer, buffer |-> last.buffer])
           IN  /\ last.branch = "none"
               /\ then.branch = "none"
               /\ then.lexer = last.lexer

\* a call of the overlay's next() is under way or can be made: each action but
\* NextNone shortens the base stream left or the buffer, so a run of such calls
\* is finite
OverlayCanStep == status = "running"

\* C17 as stated: over a finite span the wikilink parser terminates, each call of
\* next() with an empty buffer and a non-exhausted lexer consuming a token, and
\* returns None from then on; and the overlay over a finite upstream stream goes
\* on until its next() returns None: it never stops before that.
C17_AsStated ==
    /\ ParserTerminates
    /\ status = "done" \/ OverlayCanStep

\* the steps of the run in which WikiParser::next called parse_wikilink
LinkAttempts ==
    {k \in 1..Len(steps) :
        /\ steps[k].branch # "buffer"
        /\ SkipNewLines(steps[k].before) # <<>>
        /\ Head(SkipNewLines(steps[k].before)).tok = "LLBra"}

\* C18: in the wikilink parser no branch marked unreachable is reached and no
\* unwrap fails: when parse_wikilink_first_field returns Ok the next token is a
\* Pipe or a `]]`, when parse_wikilink_alias returns Ok the next token is a `]]`,
\* and an error returned by parse_wikilink is a ReParse, never Empty.
C18_NoPanic ==
    /\ \A k \in 1..Len(steps) : steps[k].branch # "panic"
    /\ \A k \in LinkAttempts :
           LET lexer == SkipNewLines(steps[k].before)
               url   == parse_wikilink_first_field(Tail(lexer))
               alias == parse_wikilink_alias(Tail(url.lexer))
               link  == parse_wikilink(source, lexer)
           IN  /\ url.tag = "Ok" =>
                      /\ url.lexer # <<>>
                      /\ Head(url.lexer).tok \in {"Pipe", "RRBra"}
               /\ (url.tag = "Ok" /\ Head(url.lexer).tok = "Pipe" /\ alias.tag = "Ok") =>
                      /\ alias.lexer # <<>>
                      /\ Head(alias.lexer).tok = "RRBra"
               /\ link.tag # "Panic"
               /\ link.tag = "Err" => link.err.kind = "ReParse"
               /\ steps[k].branch \in {"link", "reparse"}

\* in one run the parser returned a link, its first field having returned Ok
\* before a `]]`, and then met a `[[` whose first field returned the Empty error
C18_Witness ==
    \E k \in LinkAttempts : \E m \in LinkAttempts :
        /\ k < m
        /\ steps[k].branch = "link"
        /\ LET url == parse_wikilink_first_field(Tail(SkipNewLines(steps[k].before)))
           IN  url.tag = "Ok" /\ Head(url.lexer).tok = "RRBra"
        /\ steps[m].branch = "reparse"
        /\ LET url == parse_wikilink_first_field(Tail(SkipNewLines(steps[m].before)))
           IN  url.tag = "Err" /\ url.err.kind = "Empty"

====
